---------------------------- MODULE Spec2Model ----------------------------
(***************************************************************************)
(* The detection post-processing of the S3FD face detector                 *)
(* (plugins/extract/detect/s3fd.py): S3fd._post_process (softmax, coarse   *)
(* score floor, prior synthesis, decode, confidence filter), S3fd._nms     *)
(* (greedy score-ranked suppression with a score-weighted vote) and their  *)
(* composition for one image in S3fd.finalize_predictions.                 *)
(*                                                                         *)
(* Numbers.  The code computes in floating point; the model computes in    *)
(* exact rationals <<n, d>> (d > 0, lowest terms).  exp and log are        *)
(* modelled on inputs where they are rational: a classification logit is   *)
(* ln(m) for a positive integer m and is stored as m; a size regression    *)
(* offset is q * ln(2) for an integer q and is stored as q.                *)
(***************************************************************************)
EXTENDS Integers, Sequences, FiniteSets

(***************************************************************************)
(* Bounds of the model.                                                    *)
(***************************************************************************)
\* Largest number of rows of an array handed directly to _nms.
MaxBoxes == 3
\* Number of feature-map scales of one image (six in the shipped network).
NumScales == 2

(***************************************************************************)
(* Exact rational arithmetic.                                              *)
(***************************************************************************)
Abs(x) == IF x < 0 THEN -x ELSE x

RECURSIVE GCD(_, _)
GCD(a, b) == IF b = 0 THEN a ELSE GCD(b, a % b)

Rat(n, d) ==
    LET g == GCD(Abs(n), Abs(d))
        s == IF d < 0 THEN -1 ELSE 1
    IN  <<(s * n) \div g, (s * d) \div g>>

Int2Rat(n) == <<n, 1>>
Zero == Int2Rat(0)
One == Int2Rat(1)
RAdd(a, b) == Rat(a[1] * b[2] + b[1] * a[2], a[2] * b[2])
RSub(a, b) == Rat(a[1] * b[2] - b[1] * a[2], a[2] * b[2])
RMul(a, b) == Rat(a[1] * b[1], a[2] * b[2])
RDiv(a, b) == Rat(a[1] * b[2], a[2] * b[1])
RLe(a, b) == a[1] * b[2] <= b[1] * a[2]
RLt(a, b) == a[1] * b[2] < b[1] * a[2]
RMax(a, b) == IF RLe(a, b) THEN b ELSE a
RMin(a, b) == IF RLe(a, b) THEN a ELSE b

RECURSIVE Pow2(_)
Pow2(k) == IF k = 0 THEN 1 ELSE 2 * Pow2(k - 1)

\* np.exp on q * ln(2), q an integer-valued rational: 2^q.
ExpLn2(q) == IF q[1] >= 0 THEN Rat(Pow2(q[1]), 1) ELSE Rat(1, Pow2(-q[1]))

RECURSIVE RSum(_)
RSum(s) == IF s = <<>> THEN Zero ELSE RAdd(Head(s), RSum(Tail(s)))

IndexSeq(n) == [k \in 1..n |-> k]

(***************************************************************************)
(* A row of a box array: (x1, y1, x2, y2, score).                          *)
(***************************************************************************)
Row(x1, y1, x2, y2, score) ==
    [x1 |-> x1, y1 |-> y1, x2 |-> x2, y2 |-> y2, score |-> score]

(***************************************************************************)
(* S3fd.softmax on one grid cell: exp(inp - logsumexp(inp)) over the       *)
(* channel axis.  A logit ln(m) is stored as m, so logsumexp is ln of the  *)
(* sum and the result of channel c is m[c] / sum.                          *)
(***************************************************************************)
RECURSIVE SumInts(_)
SumInts(s) == IF s = <<>> THEN 0 ELSE Head(s) + SumInts(Tail(s))

LogSumExp(logits) == SumInts(logits)

Softmax(logits) == [c \in 1..Len(logits) |-> Rat(logits[c], LogSumExp(logits))]

(***************************************************************************)
(* S3fd.decode for one location row and one prior row (center-offset       *)
(* form), variances = [0.1, 0.2].                                          *)
(***************************************************************************)
Variances == <<Rat(1, 10), Rat(1, 5)>>

DecodeSwapped(location, priors) ==
    LET cx == RAdd(priors[1], RMul(RMul(location[1], Variances[1]), priors[3]))
        cy == RAdd(priors[2], RMul(RMul(location[2], Variances[1]), priors[4]))
        bw == RMul(priors[3], ExpLn2(RMul(location[3], Variances[2])))
        bh == RMul(priors[4], ExpLn2(RMul(location[4], Variances[2])))
        x1 == RAdd(cx, RDiv(bw, Int2Rat(2)))
        y1 == RAdd(cy, RDiv(bh, Int2Rat(2)))
    IN  <<x1, y1, RSub(x1, bw), RSub(y1, bh)>>

Decode(location, priors) ==
    LET cx == RAdd(priors[1], RMul(RMul(location[1], Variances[1]), priors[3]))
        cy == RAdd(priors[2], RMul(RMul(location[2], Variances[1]), priors[4]))
        bw == RMul(priors[3], ExpLn2(RMul(location[3], Variances[2])))
        bh == RMul(priors[4], ExpLn2(RMul(location[4], Variances[2])))
        x1 == RSub(cx, RDiv(bw, Int2Rat(2)))
        y1 == RSub(cy, RDiv(bh, Int2Rat(2)))
    IN  <<x1, y1, RAdd(bw, x1), RAdd(bh, y1)>>

(***************************************************************************)
(* S3fd._post_process.                                                     *)
(***************************************************************************)
\* stride = 2 ** (i + 2)
Stride(i) == Pow2(i + 2)

\* priors = [[axc, ayc, stride * 4, stride * 4]]
PriorsSwapped(i, hindex, windex) ==
    LET stride == Stride(i)
        axc == RAdd(Rat(stride, 2), Int2Rat(hindex * stride))
        ayc == RAdd(Rat(stride, 2), Int2Rat(windex * stride))
    IN  <<axc, ayc, Int2Rat(stride * 4), Int2Rat(stride * 4)>>

Priors(i, hindex, windex) ==
    LET stride == Stride(i)
        axc == RAdd(Rat(stride, 2), Int2Rat(windex * stride))
        ayc == RAdd(Rat(stride, 2), Int2Rat(hindex * stride))
    IN  <<axc, ayc, Int2Rat(stride * 4), Int2Rat(stride * 4)>>

\* ocls[:, :, :, 1] > 0.05
AboveFloorInclusive(score) == RLe(Rat(1, 20), score)

AboveFloor(score) == RLt(Rat(1, 20), score)

\* score >= self.confidence
MeetsConfidenceInverted(score, conf) == RLe(score, conf)

MeetsConfidence(score, conf) == RLe(conf, score)

\* Grid of scale i: rows 0..GridH(i)-1, columns 0..GridW(i)-1.
GridH(i) == IF i = 1 THEN 2 ELSE 1
GridW(i) == IF i = 0 THEN 2 ELSE 1

\* The cells of a grid in np.where order (row-major).
CellSeq(hh, ww) == [k \in 1..(hh * ww) |-> <<(k - 1) \div ww, (k - 1) % ww>>]

\* The rows one scale appends to retval, each with the cell it came from.
ScaleRows(i, ocls, oreg, hh, ww, conf) ==
    LET sm == [cell \in DOMAIN ocls |-> Softmax(ocls[cell])]
        poss == SelectSeq(CellSeq(hh, ww), LAMBDA cell : AboveFloor(sm[cell][2]))
        kept == SelectSeq(poss, LAMBDA cell : MeetsConfidence(sm[cell][2], conf))
    IN  [k \in 1..Len(kept) |->
            LET cell == kept[k]
                box == Decode(oreg[cell], Priors(i, cell[1], cell[2]))
            IN  [row |-> Row(box[1], box[2], box[3], box[4], sm[cell][2]),
                 cell |-> <<i, cell[1], cell[2]>>]]

RECURSIVE Retval(_, _, _)
Retval(bboxlist, n, conf) ==
    IF n = 0 THEN <<>>
    ELSE Retval(bboxlist, n - 1, conf) \o
         ScaleRows(n - 1, bboxlist[2 * n - 1].data, bboxlist[2 * n].data,
                   bboxlist[2 * n - 1].h, bboxlist[2 * n - 1].w, conf)

\* np.zeros((1, 5))
PlaceholderNone == <<>>

Placeholder == <<Row(Zero, Zero, Zero, Zero, Zero)>>

PostProcess(bboxlist, conf) ==
    LET retval == Retval(bboxlist, Len(bboxlist) \div 2, conf)
    IN  IF retval # <<>> THEN [k \in 1..Len(retval) |-> retval[k].row]
        ELSE Placeholder

(***************************************************************************)
(* S3fd._nms.                                                              *)
(***************************************************************************)
\* areas = (boxes[:, 2] - boxes[:, 0] + 1) * (boxes[:, 3] - boxes[:, 1] + 1)
Area(b) == RMul(RAdd(RSub(b.x2, b.x1), One), RAdd(RSub(b.y2, b.y1), One))

Areas(bxs) == [k \in 1..Len(bxs) |-> Area(bxs[k])]

\* boxes[:, 4].argsort()[::-1]: the indices in descending order of score.  The
\* default sort kind is not stable, so the order of equal scores is any.
RECURSIVE Rankings(_, _)
Rankings(bxs, remaining) ==
    IF remaining = {} THEN {<<>>}
    ELSE UNION {{<<i>> \o r : r \in Rankings(bxs, remaining \ {i})} :
                i \in {i \in remaining :
                          \A j \in remaining : RLe(bxs[j].score, bxs[i].score)}}

\* boxes[:, 4].argsort() without the reversal: ascending order of score.
ArgsortAscending(bxs) ==
    LET n == Len(bxs)
    IN  {[k \in 1..n |-> p[n + 1 - k]] : p \in Rankings(bxs, 1..n)}

Argsort(bxs) == Rankings(bxs, 1..Len(bxs))

\* Intersection over union of rows a and b of bxs with the precomputed areas.
Iou(bxs, ars, a, b) ==
    LET max_x == RMax(bxs[a].x1, bxs[b].x1)
        max_y == RMax(bxs[a].y1, bxs[b].y1)
        min_x == RMin(bxs[a].x2, bxs[b].x2)
        min_y == RMin(bxs[a].y2, bxs[b].y2)
        width == RMax(Zero, RAdd(RSub(min_x, max_x), One))
        height == RMax(Zero, RAdd(RSub(min_y, max_y), One))
        intersection == RMul(width, height)
    IN  RDiv(intersection, RSub(RAdd(ars[a], ars[b]), intersection))

\* iou > threshold
IsOverlappingInclusive(iou, thr) == RLe(thr, iou)

IsOverlapping(iou, thr) == RLt(thr, iou)

\* iou <= threshold
IsNonOverlappingFlipped(iou, thr) == RLe(thr, iou)

IsNonOverlapping(iou, thr) == RLe(iou, thr)

\* iou of ranked[1] against each of ranked[2:], by position in the rest.
IouOfRest(bxs, ars, ranked) ==
    [k \in 1..(Len(ranked) - 1) |-> Iou(bxs, ars, ranked[1], ranked[k + 1])]

\* overlap_set = ranked_indices[overlapping_boxes + 1]
OverlapSet(bxs, ars, ranked, thr) ==
    LET iou == IouOfRest(bxs, ars, ranked)
        overlapping_boxes ==
            SelectSeq(IndexSeq(Len(iou)), LAMBDA k : IsOverlapping(iou[k], thr))
    IN  [k \in 1..Len(overlapping_boxes) |-> ranked[overlapping_boxes[k] + 1]]

\* ranked_indices[non_overlapping_boxes + 1]
NonOverlapSetOffByOne(bxs, ars, ranked, thr) ==
    LET iou == IouOfRest(bxs, ars, ranked)
        non_overlapping_boxes ==
            SelectSeq(IndexSeq(Len(iou)), LAMBDA k : IsNonOverlapping(iou[k], thr))
    IN  [k \in 1..Len(non_overlapping_boxes) |-> ranked[non_overlapping_boxes[k]]]

NonOverlapSet(bxs, ars, ranked, thr) ==
    LET iou == IouOfRest(bxs, ars, ranked)
        non_overlapping_boxes ==
            SelectSeq(IndexSeq(Len(iou)), LAMBDA k : IsNonOverlapping(iou[k], thr))
    IN  [k \in 1..Len(non_overlapping_boxes) |-> ranked[non_overlapping_boxes[k] + 1]]

\* The sum of the weights np.average normalises by.
WeightSum(bxs, set) == RSum([k \in 1..Len(set) |-> bxs[set[k]].score])

\* np.average(boxes[set, :4], axis=0, weights=boxes[set, 4]), weights not
\* summing to zero.
Average(bxs, set) ==
    LET scl == WeightSum(bxs, set)
        Col(f(_)) ==
            RDiv(RSum([k \in 1..Len(set) |-> RMul(f(bxs[set[k]]), bxs[set[k]].score)]),
                 scl)
        X1(b) == b.x1
        Y1(b) == b.y1
        X2(b) == b.x2
        Y2(b) == b.y2
    IN  <<Col(X1), Col(Y1), Col(X2), Col(Y2)>>

\* boxes[retained_box_indices]
Take(bxs, indices) == [k \in 1..Len(indices) |-> bxs[indices[k]]]

(***************************************************************************)
(* Inputs.                                                                 *)
(***************************************************************************)
\* Box geometries (x1, y1, x2, y2) with x1 <= x2, y1 <= y2 handed to _nms.
Shapes ==
    {<<0, 0, 1, 0>>, <<0, 0, 2, 0>>, <<1, 0, 2, 0>>, <<0, 0, 2, 1>>}

\* Scores in [0, 1] handed to _nms.
Scores == {Zero, Rat(6, 10), Rat(9, 10)}

InputRows ==
    {Row(Int2Rat(g[1]), Int2Rat(g[2]), Int2Rat(g[3]), Int2Rat(g[4]), s) :
        g \in Shapes, s \in Scores}

InputArrays == UNION {[1..n -> InputRows] : n \in 0..MaxBoxes}

\* IoU thresholds handed to _nms.
Thresholds == {Zero, Rat(1, 2)}

\* self.confidence = config["confidence"] / 100
Confidences == {Zero, Rat(1, 2), Rat(9, 10)}

\* Classification logits of a cell, (background, foreground), as exp(logit):
\* foreground scores 0.9, 0.6 and 0.05.
ClsValues == {<<1, 9>>, <<2, 3>>, <<19, 1>>}

\* Regression offsets of a cell, (lx, ly, lw, lh), lw and lh in units of ln 2.
RegValues == {<<Zero, Zero, Zero, Zero>>,
              <<One, Int2Rat(-1), Int2Rat(5), Int2Rat(-5)>>}

AllCells ==
    {<<i, h, w>> : i \in 0..(NumScales - 1), h \in 0..1, w \in 0..1} \cap
    {c \in (0..(NumScales - 1)) \X (0..1) \X (0..1) :
        c[2] < GridH(c[1]) /\ c[3] < GridW(c[1])}

\* The list of 2 * NumScales tensors of one image: classification and
\* regression of scale 0, then of scale 1, ...
MakeBboxlist(cls, reg) ==
    [n \in 1..(2 * NumScales) |->
        LET i == (n - 1) \div 2
            cells == {<<h, w>> : h \in 0..(GridH(i) - 1), w \in 0..(GridW(i) - 1)}
        IN  [h |-> GridH(i), w |-> GridW(i),
             data |-> [cell \in cells |->
                          IF n % 2 = 1 THEN cls[<<i, cell[1], cell[2]>>]
                          ELSE reg[<<i, cell[1], cell[2]>>]]]]

(***************************************************************************)
(* State.                                                                  *)
(***************************************************************************)
VARIABLES
    bboxlist,              \* finalize_predictions: the image's tensors
    confidence,            \* self.confidence
    origin,                \* the cell each row of retval was decoded from
    boxes,                 \* _nms: the array, written in place by the vote
    given,                 \* _nms: the array as it was passed in
    threshold,             \* _nms: the IoU threshold
    areas,                 \* _nms: areas
    ranked_indices,        \* _nms: ranked_indices
    retained_box_indices,  \* _nms: retained_box_indices
    result,                \* what _nms returned
    pass,                  \* 1: first application of _nms, 2: on its own output
    first,                 \* what the first application returned
    pc

vars == <<bboxlist, confidence, origin, boxes, given, threshold, areas,
          ranked_indices, retained_box_indices, result, pass, first, pc>>

\* The locals of _nms before the call.
NmsFresh ==
    /\ origin = <<>>
    /\ given = boxes
    /\ areas = <<>>
    /\ ranked_indices = <<>>
    /\ retained_box_indices = <<>>
    /\ result = <<>>
    /\ pass = 1
    /\ first = <<>>

\* finalize_predictions on one image: the tensors of the image and the
\* configured confidence.
Init ==
    /\ \E cls \in [AllCells -> ClsValues], reg \in [AllCells -> RegValues] :
          bboxlist = MakeBboxlist(cls, reg)
    /\ confidence \in Confidences
    /\ boxes = <<>>
    /\ threshold = Rat(1, 2)
    /\ pc = "post_process"
    /\ NmsFresh

\* _nms called on an array of well-formed rows of its own.
InitNms ==
    /\ bboxlist = <<>>
    /\ confidence = Zero
    /\ boxes \in InputArrays
    /\ threshold \in Thresholds
    /\ pc = "nms"
    /\ NmsFresh

\* finalize_predictions: boxes = self._post_process(bboxlist), then the call
\* self._nms(boxes, 0.5).
PostProcessCall ==
    /\ pc = "post_process"
    /\ LET retval == Retval(bboxlist, Len(bboxlist) \div 2, confidence)
       IN  /\ origin' = [k \in 1..Len(retval) |-> retval[k].cell]
           /\ boxes' = PostProcess(bboxlist, confidence)
    /\ given' = boxes'
    /\ pc' = "nms"
    /\ UNCHANGED <<bboxlist, confidence, threshold, areas, ranked_indices,
                   retained_box_indices, result, pass, first>>

\* _nms, lines 472-475: the areas and the ranking.
NmsEnter ==
    /\ pc = "nms"
    /\ areas' = Areas(boxes)
    /\ ranked_indices' \in Argsort(boxes)
    /\ retained_box_indices' = <<>>
    /\ pc' = "nms_loop"
    /\ UNCHANGED <<bboxlist, confidence, origin, boxes, given, threshold,
                   result, pass, first>>

\* _nms, lines 476-494: one iteration of the while loop.  np.average raises
\* ZeroDivisionError when the weights sum to zero.
NmsIterate ==
    /\ pc = "nms_loop"
    /\ ranked_indices # <<>>
    /\ LET best == ranked_indices[1]
           overlap_set == OverlapSet(boxes, areas, ranked_indices, threshold)
       IN  IF Len(overlap_set) # 0 /\ WeightSum(boxes, overlap_set) = Zero
           THEN /\ pc' = "error"
                /\ UNCHANGED <<boxes, retained_box_indices, ranked_indices>>
           ELSE /\ boxes' =
                     IF Len(overlap_set) # 0
                     THEN LET vote == Average(boxes, overlap_set)
                          IN  [boxes EXCEPT ![best] =
                                  Row(vote[1], vote[2], vote[3], vote[4], @.score)]
                     ELSE boxes
                /\ retained_box_indices' = Append(retained_box_indices, best)
                /\ ranked_indices' =
                     NonOverlapSet(boxes, areas, ranked_indices, threshold)
                /\ pc' = "nms_loop"
    /\ UNCHANGED <<bboxlist, confidence, origin, given, threshold, areas,
                   result, pass, first>>

\* _nms, line 495: return boxes[retained_box_indices].
NmsReturn ==
    /\ pc = "nms_loop"
    /\ ranked_indices = <<>>
    /\ result' = Take(boxes, retained_box_indices)
    /\ first' = IF pass = 1 THEN result' ELSE first
    /\ pc' = "done"
    /\ UNCHANGED <<bboxlist, confidence, origin, boxes, given, threshold,
                   areas, ranked_indices, retained_box_indices, pass>>

\* _nms called again on what it returned, with the same threshold and fresh
\* locals.
NmsAgain ==
    /\ pc = "done"
    /\ pass = 1
    /\ boxes' = result
    /\ given' = result
    /\ areas' = <<>>
    /\ ranked_indices' = <<>>
    /\ retained_box_indices' = <<>>
    /\ pass' = 2
    /\ pc' = "nms"
    /\ UNCHANGED <<bboxlist, confidence, origin, threshold, result, first>>

\* The per-image pipeline of finalize_predictions.
Next == PostProcessCall \/ NmsEnter \/ NmsIterate \/ NmsReturn

Spec == Init /\ [][Next]_vars

\* _nms on its own, then once more on its output.
NextNms == NmsEnter \/ NmsIterate \/ NmsReturn \/ NmsAgain

SpecNms == InitNms /\ [][NextNms]_vars

(***************************************************************************)
(* Properties.                                                             *)
(***************************************************************************)
WellFormed(b) == RLe(b.x1, b.x2) /\ RLe(b.y1, b.y2)

\* The foreground score of a cell <<i, h, w>> of the image: m1 / (m0 + m1).
CellScore(cell) ==
    LET logits == bboxlist[2 * cell[1] + 1].data[<<cell[2], cell[3]>>]
    IN  Rat(logits[2], logits[1] + logits[2])

\* The regression offsets of a cell <<i, h, w>> of the image.
CellLoc(cell) == bboxlist[2 * cell[1] + 2].data[<<cell[2], cell[3]>>]

\* The rows a and b of bxs overlap by more than thr (+1 pixel convention).
Overlap(bxs, a, b, thr) == RLt(thr, Iou(bxs, Areas(bxs), a, b))

\* Two arrays hold the same rows, whatever their order.
SameRows(a, b) ==
    /\ Len(a) = Len(b)
    /\ \A r \in {a[k] : k \in 1..Len(a)} \cup {b[k] : k \in 1..Len(b)} :
          Cardinality({k \in 1..Len(a) : a[k] = r}) =
          Cardinality({k \in 1..Len(b) : b[k] = r})

\* C1 (as claimed): when the top-ranked box has overlapping boxes, its
\* coordinates become the score-weighted average of best and the overlapping
\* boxes together, and its score is kept.
C1_VoteIncludesBest ==
    [][(/\ pc = "nms_loop"
        /\ ranked_indices # <<>>
        /\ pc' = "nms_loop"
        /\ Len(OverlapSet(boxes, areas, ranked_indices, threshold)) # 0)
       => LET best == ranked_indices[1]
              vote == Average(boxes,
                          <<best>> \o
                          OverlapSet(boxes, areas, ranked_indices, threshold))
          IN  boxes'[best] =
                  Row(vote[1], vote[2], vote[3], vote[4], boxes[best].score)]_vars

\* C2 (as claimed): no two rows of the output of _nms overlap by more than
\* the threshold, and _nms applied to its own output returns the same rows.
C2_OutputNonOverlapping ==
    pc = "done" =>
        /\ \A j, k \in 1..Len(result) :
              j < k => ~Overlap(result, j, k, threshold)
        /\ pass = 2 => SameRows(result, first)

\* C2 (amended): no two retained boxes overlap by more than the threshold on
\* the coordinates they had in the input of _nms.
C2_RetainedInputsNonOverlapping ==
    \A j, k \in 1..Len(retained_box_indices) :
        j < k => ~Overlap(given, retained_box_indices[j],
                          retained_box_indices[k], threshold)

C2_Witness ==
    /\ pc = "done"
    /\ pass = 1
    /\ Len(result) >= 2
    /\ Len(result) < Len(given)
    /\ \E j, k \in 1..Len(result) : j < k /\ Overlap(result, j, k, threshold)

\* No cell of the image has a foreground score that reaches the confidence.
NoAnchorClears == \A cell \in AllCells : RLt(CellScore(cell), confidence)

\* C3 (as claimed): when no anchor clears the confidence threshold the
\* pipeline ends without error with zero boxes.
C3_EmptyWhenNoneClear ==
    NoAnchorClears => /\ pc # "error"
                      /\ pc = "done" => Len(result) = 0

\* C3 (amended): when no anchor clears the confidence threshold the pipeline
\* ends without error with exactly one row, (0, 0, 0, 0, 0).
C3_PlaceholderWhenNoneClear ==
    NoAnchorClears =>
        /\ pc # "error"
        /\ pc # "post_process" => origin = <<>>
        /\ pc = "done" => result = <<Row(Zero, Zero, Zero, Zero, Zero)>>

C3_Witness == NoAnchorClears /\ pc = "done"

\* C4 (as claimed): _nms on N >= 1 well-formed rows with scores in [0, 1]
\* never reaches an error outcome.
C4_NmsTotal == pc # "error"

\* C5: _nms returns at most as many rows as it was given, at least one when
\* given at least one, and each returned row is a distinct input index.
C5_Cardinality ==
    /\ \A k \in 1..Len(retained_box_indices) :
          retained_box_indices[k] \in 1..Len(given)
    /\ \A j, k \in 1..Len(retained_box_indices) :
          j # k => retained_box_indices[j] # retained_box_indices[k]
    /\ pc = "done" =>
          /\ Len(result) = Len(retained_box_indices)
          /\ Len(result) <= Len(given)
          /\ Len(given) >= 1 => Len(result) >= 1

C5_Witness ==
    /\ pc = "done"
    /\ Len(given) = MaxBoxes
    /\ Len(result) >= 1
    /\ Len(result) < Len(given)

\* C6: for the same tensors, a confidence at least as high never returns more
\* rows (nor decodes more candidates) from _post_process.
C6_Monotone ==
    pc = "nms" =>
        \A c2 \in Confidences :
            RLe(confidence, c2) =>
                /\ Len(PostProcess(bboxlist, c2)) <= Len(given)
                /\ Len(Retval(bboxlist, Len(bboxlist) \div 2, c2)) <= Len(origin)

C6_Witness ==
    /\ pc = "nms"
    /\ \E c2 \in Confidences :
          /\ RLt(confidence, c2)
          /\ Len(PostProcess(bboxlist, c2)) < Len(given)
          /\ Len(Retval(bboxlist, Len(bboxlist) \div 2, c2)) >= 1

\* Every pair of rows of the input of _nms has IoU <= threshold.
NoPairOverlaps ==
    \A j, k \in 1..Len(given) : j < k => ~Overlap(given, j, k, threshold)

\* C7: when every pair of input boxes has IoU <= threshold, _nms returns all
\* of them, each with its coordinates and score unchanged.
C7_AllRetainedUnchanged ==
    NoPairOverlaps =>
        /\ pc # "error"
        /\ pc = "done" =>
              /\ Len(result) = Len(given)
              /\ {retained_box_indices[k] : k \in 1..Len(retained_box_indices)} =
                     1..Len(given)
              /\ \A k \in 1..Len(result) :
                    result[k] = given[retained_box_indices[k]]

C7_Witness ==
    /\ pc = "done"
    /\ NoPairOverlaps
    /\ Len(given) >= 2
    /\ \E j, k \in 1..Len(given) :
          /\ j < k
          /\ Iou(given, Areas(given), j, k) = threshold
          /\ given[j] # given[k]

\* C8: x1 <= x2 and y1 <= y2 for every row _post_process returns, every row
\* of the array _nms works on and every row _nms returns.
C8_WellFormed ==
    /\ \A k \in 1..Len(given) : WellFormed(given[k])
    /\ \A k \in 1..Len(boxes) : WellFormed(boxes[k])
    /\ \A k \in 1..Len(result) : WellFormed(result[k])

C8_Witness ==
    /\ pc = "done"
    /\ origin # <<>>
    /\ \E k \in 1..Len(result) : result[k] # given[retained_box_indices[k]]
    /\ \E k \in 1..Len(result) : CellLoc(origin[retained_box_indices[k]]) #
                                     <<Zero, Zero, Zero, Zero>>

\* The prior box of cell <<i, h, w>>: centre (stride/2 + w*stride,
\* stride/2 + h*stride), side 4*stride, stride = 2^(i+2).
PriorBox(cell) ==
    LET stride == Pow2(cell[1] + 2)
        cx == Rat(stride + 2 * cell[3] * stride, 2)
        cy == Rat(stride + 2 * cell[2] * stride, 2)
    IN  <<RSub(cx, Int2Rat(2 * stride)), RSub(cy, Int2Rat(2 * stride)),
          RAdd(cx, Int2Rat(2 * stride)), RAdd(cy, Int2Rat(2 * stride))>>

\* C9: a surviving cell whose regression offsets are all zero yields exactly
\* its prior box with the cell's score; scale 0, cell (0, 0), score 0.9 and
\* confidence 0.5 yield (-6, -6, 10, 10, 0.9).
C9_ZeroOffsetsGivePrior ==
    pc = "nms" =>
        /\ \A k \in 1..Len(origin) :
              CellLoc(origin[k]) = <<Zero, Zero, Zero, Zero>> =>
                  LET p == PriorBox(origin[k])
                  IN  given[k] = Row(p[1], p[2], p[3], p[4], CellScore(origin[k]))
        /\ ( /\ bboxlist[1].data[<<0, 0>>] = <<1, 9>>
             /\ bboxlist[2].data[<<0, 0>>] = <<Zero, Zero, Zero, Zero>>
             /\ confidence = Rat(1, 2) ) =>
              given[1] = Row(Int2Rat(-6), Int2Rat(-6), Int2Rat(10), Int2Rat(10),
                             Rat(9, 10))

C9_Witness ==
    /\ pc = "nms"
    /\ bboxlist[1].data[<<0, 0>>] = <<1, 9>>
    /\ bboxlist[2].data[<<0, 0>>] = <<Zero, Zero, Zero, Zero>>
    /\ confidence = Rat(1, 2)
    /\ \E k \in 1..Len(origin) :
          /\ origin[k][2] # origin[k][3]
          /\ CellLoc(origin[k]) = <<Zero, Zero, Zero, Zero>>

\* C10: a cell yields a candidate exactly when its foreground score is
\* strictly above 0.05 and at least the confidence; the candidate carries
\* that score, and no cell yields two.
C10_EmittedIffAboveBoth ==
    pc = "nms" =>
        \A cell \in AllCells :
            LET rows == {k \in 1..Len(origin) : origin[k] = cell}
                clears == /\ RLt(Rat(5, 100), CellScore(cell))
                          /\ RLe(confidence, CellScore(cell))
            IN  /\ Cardinality(rows) = IF clears THEN 1 ELSE 0
                /\ \A k \in rows : given[k].score = CellScore(cell)

C10_Witness ==
    /\ pc = "nms"
    /\ confidence = Zero
    /\ origin # <<>>
    /\ \E cell \in AllCells :
          /\ CellScore(cell) = Rat(5, 100)
          /\ \A k \in 1..Len(origin) : origin[k] # cell
    /\ \E cell \in AllCells : CellScore(cell) = Rat(9, 10)

\* C11: _nms returns the retained boxes in the order they were retained,
\* which is descending order of the input scores: the scores of the output
\* are non-increasing, no box still ranked outscores a retained one, and
\* each retained box carries the score it had in the input, also when the
\* vote replaced its coordinates.
C11_RetainedOrderDescending ==
    /\ \A j, k \in 1..Len(retained_box_indices) :
          j < k => RLe(given[retained_box_indices[k]].score,
                       given[retained_box_indices[j]].score)
    /\ pc = "nms_loop" =>
          \A j \in 1..Len(retained_box_indices), k \in 1..Len(ranked_indices) :
              RLe(given[ranked_indices[k]].score,
                  given[retained_box_indices[j]].score)
    /\ pc = "done" =>
          /\ Len(result) = Len(retained_box_indices)
          /\ \A k \in 1..Len(result) :
                result[k].score = given[retained_box_indices[k]].score
          /\ \A j, k \in 1..Len(result) :
                j < k => RLe(result[k].score, result[j].score)

C11_Witness ==
    /\ pc = "done"
    /\ pass = 1
    /\ Len(result) >= 2
    /\ RLt(result[2].score, result[1].score)
    /\ retained_box_indices[1] > retained_box_indices[2]
    /\ \E k \in 1..Len(result) :
          <<result[k].x1, result[k].y1, result[k].x2, result[k].y2>> #
          LET g == given[retained_box_indices[k]]
          IN  <<g.x1, g.y1, g.x2, g.y2>>

=============================================================================
